---- MODULE Spec2Model ----
(***************************************************************************)
(* Model of sdriving/envs/spline_env.py: the hierarchical spline           *)
(* environments RoadIntersectionSplineEnv (full 2-D offset) and            *)
(* RoadIntersectionLeftRightControlEnv (single-axis offset).               *)
(*                                                                         *)
(* Units.  Coordinates are integers in units of width/8, the quantum of a  *)
(* full-variant deviation (0.25 * width / 2).  Catalog entries are kept in *)
(* hundredths (-0.75 is -75), so deviation = entry * width / 2 is          *)
(* (entry * Width) \div 200 coordinate units.                              *)
(*                                                                         *)
(* Tensors.  A 2-D point is a pair <<x, y>>; Python's None is NoneVal.     *)
(* A track entry either owns its value (ref = 0) or is a view of the       *)
(* storage of intermediate_goals[ref] (ref >= 1), as pt[:2][None, :] is.   *)
(***************************************************************************)
EXTENDS Integers, Sequences, FiniteSets, TLC

VARIABLES
    variant,      \* "full": RoadIntersectionSplineEnv, "lr": the LeftRight subclass
    actions_list, \* self.actions_list, set by configure_action_list
    ids,          \* get_agent_ids_list()
    agents,       \* self.agents: id -> agent record
    pc,           \* "idle": no call in progress; "loop": inside the while-not-done loop of step
    curActs,      \* the actions map of the step call in progress / last made
    rewards,      \* the local rewards dict of the step call in the loop
    tickLog,      \* per tick of this call: the policy queries made, the (rew, dones["__all__"]) of the base step
    baseDone,     \* base environment: it has reported done["__all__"] in this episode
    baseT,        \* base environment: physics ticks executed in this episode
    baseMode,     \* base environment: "finite" reports done["__all__"] within the horizon,
                  \* "never" does not report it at all
    ret,          \* what the last finished step call returned (or raised)
    callLog,      \* per finished step call of this episode: its actions map and result
    dpIn,         \* argument of a direct get_dummy_point call
    dpOut,        \* its result
    tfIn,         \* arguments of a transform_state_action_single_agent call
    tfOut         \* what it returned or raised, and curr_actions[a_id] after it

vars == <<variant, actions_list, ids, agents, pc, curActs, rewards, tickLog,
          baseDone, baseT, baseMode, ret, callLog, dpIn, dpOut, tfIn, tfOut>>

-----------------------------------------------------------------------------
(* Bounds of the model *)

\* the largest number of intermediate goals of an agent in a multi-agent episode
MaxGoals == 2
\* the largest number of intermediate goals in a single-agent episode
SoloGoals == 3
\* the base environment reports done["__all__"] at the latest at this tick
Horizon == 2
\* ticks of one step call the model follows when the base never reports done
MaxTicks == Horizon + 1
\* the largest timesteps argument given to the action transformer
MaxTimesteps == 2
\* get_dummy_point is called directly on the points of -DummyRange..DummyRange squared
DummyRange == 5

AgentPool == {"a1", "a2"}
\* the per-agent rewards one base step returns: nothing, or a value telling
\* the agents apart
RewardMaps(S) == {[a \in S |-> 0], [a \in S |-> IF a = "a1" THEN 1 ELSE 2]}
\* discrete action indices a caller supplies to the 7 x 7 catalog: a valid one,
\* one past the end and, in single-agent episodes, a negative one
ActionInputs(S) == IF Cardinality(S) = 1 THEN {-1, 3, 49} ELSE {3, 49}
\* the same for the 3-entry catalog
ActionInputsLR(S) == IF Cardinality(S) = 1 THEN {-1, 0, 3} ELSE {0, 3}

-----------------------------------------------------------------------------
(* Geometry of the base intersection environment (self.width, self.length) *)

Width == 8
Length == 16
HalfWidth == Width \div 2
FarField == Length + HalfWidth

NoneVal == <<>>

\* Python's seq[i] for a list of length Len(s): TRUE when it raises IndexError
PyIndexError(s, i) == i >= Len(s) \/ i < -Len(s)
\* Python's seq[i], negative i counting from the end
PyIndex(s, i) == IF i >= 0 THEN s[i + 1] ELSE s[Len(s) + i + 1]
\* the 1-based position Python's seq[i] reads
PyPos(s, i) == IF i >= 0 THEN i + 1 ELSE Len(s) + i + 1

\* fault: floor instead of ceil, the last value is lost
arangeFloor(start, stop, step) ==
    [i \in 1..((stop - start) \div step) |-> start + (i - 1) * step]

\* np.arange(start, stop, step), step > 0, all in hundredths:
\* ceil((stop - start) / step) values start, start + step, ...
arange(start, stop, step) ==
    [i \in 1..((stop - start + step - 1) \div step) |-> start + (i - 1) * step]

\* itertools.product(xs, ys) as a list: the last factor varies fastest
product(xs, ys) ==
    [k \in 1..(Len(xs) * Len(ys)) |->
        <<xs[((k - 1) \div Len(ys)) + 1], ys[((k - 1) % Len(ys)) + 1]>>]

\* RoadIntersectionSplineEnv.configure_action_list resp. the LeftRight override
configure_action_list(v) ==
    IF v = "full"
    THEN product(arange(-75, 76, 25), arange(-75, 76, 25))
    ELSE <<-50, 0, 50>>

\* get_action_space: the N of Discrete(N)
get_action_space == Len(actions_list)

\* self.accln_control_actions_list of __init__
accln_control_actions_list == arange(-150, 175, 25)

\* entry * self.width / 2, for an entry in hundredths
Scale(entry) == (entry * Width) \div 200

-----------------------------------------------------------------------------
(* get_dummy_point *)

\* fault: the y tests before the x tests
get_dummy_point_yfirst(pt) ==
    LET x == pt[1]
        y == pt[2]
    IN  IF y > HalfWidth THEN <<x, FarField>>
        ELSE IF y < -HalfWidth THEN <<x, -FarField>>
        ELSE IF x > HalfWidth THEN <<FarField, y>>
        ELSE IF x < -HalfWidth THEN <<-FarField, y>>
        ELSE NoneVal

\* the far-field point of pt, None when pt lies inside the drivable square
get_dummy_point(pt) ==
    LET x == pt[1]
        y == pt[2]
    IN  IF x > HalfWidth THEN <<FarField, y>>
        ELSE IF x < -HalfWidth THEN <<-FarField, y>>
        ELSE IF y > HalfWidth THEN <<x, FarField>>
        ELSE IF y < -HalfWidth THEN <<x, -FarField>>
        ELSE NoneVal

-----------------------------------------------------------------------------
(* What the base environment hands to add_vehicle.  An agent enters on     *)
(* road d (0 east, 1 north, 2 west, 3 south), drives through the           *)
(* intersection and leaves on the opposite road.  The last goal lies far   *)
(* enough out on the exit road for every offset waypoint derived from it   *)
(* to lie outside the drivable square, as get_dummy_point requires; the    *)
(* goals before it lie inside the square.                                  *)

\* the road each agent of the pool enters on ("road name" ends in this digit)
RoadOf(a) == IF a = "a1" THEN 0 ELSE 1

Rotate(pt, d) ==
    CASE d = 0 -> pt
      [] d = 1 -> <<-pt[2], pt[1]>>
      [] d = 2 -> <<-pt[1], -pt[2]>>
      [] d = 3 -> <<pt[2], -pt[1]>>

StartPosition(d) == Rotate(<<HalfWidth + 8, 2>>, d)

GoalPath(d, G) ==
    [i \in 1..G |->
        IF i = G THEN Rotate(<<-(FarField - 2), 2>>, d)
        ELSE Rotate(<<HalfWidth - 2 * i, 2>>, d)]

\* a tensor that owns its value
Own(pt) == [ref |-> 0, pt |-> pt]
\* a view of the first two components of intermediate_goals[k] (k 1-based)
View(k) == [ref |-> k, pt |-> NoneVal]
\* the value a tensor holds now
Deref(rec, item) ==
    IF item.ref = 0 THEN item.pt ELSE rec.intermediate_goals[item.ref]

\* torch.cat(track, dim=0): a copy of the values; TypeError when an entry is None
CatRaises(rec) == \E i \in 1..Len(rec.track) : Deref(rec, rec.track[i]) = NoneVal
Cat(rec) == [i \in 1..Len(rec.track) |-> Deref(rec, rec.track[i])]

\* add_vehicle: the base record plus track_point, previous_start_point, track
\* fault: the track starts at the vehicle position, without the dummy start point
add_vehicle_nodummy(d, G) ==
    [ road                 |-> d,
      position             |-> StartPosition(d),
      intermediate_goals   |-> GoalPath(d, G),
      track_point          |-> 0,
      previous_start_point |-> Own(StartPosition(d)),
      track                |-> << Own(StartPosition(d)) >>,
      registered           |-> << >>,
      extends              |-> 0 ]

add_vehicle(d, G) ==
    [ road                 |-> d,
      position             |-> StartPosition(d),
      intermediate_goals   |-> GoalPath(d, G),
      track_point          |-> 0,
      previous_start_point |-> Own(StartPosition(d)),
      track                |-> << Own(get_dummy_point(StartPosition(d))),
                                  Own(StartPosition(d)) >>,
      registered           |-> << >>,   \* the tracks register_track received
      extends              |-> 0 ]      \* times step appended waypoints for the agent

\* fault: an exhausted cursor is rewound to the first goal
get_state_single_agent_rewind(rec) ==
    IF rec.track_point >= Len(rec.intermediate_goals)
    THEN <<[rec EXCEPT !.track_point = 0], NoneVal>>
    ELSE << [rec EXCEPT !.track_point = @ + 1],
            << Deref(rec, rec.previous_start_point),
               rec.intermediate_goals[rec.track_point + 1],
               FarField >> >>

\* RoadIntersectionSplineEnv.get_state_single_agent: <<record after, observation>>
get_state_single_agent_full(rec) ==
    IF rec.track_point >= Len(rec.intermediate_goals)
    THEN <<rec, NoneVal>>
    ELSE << [rec EXCEPT !.track_point = @ + 1],
            << Deref(rec, rec.previous_start_point),
               rec.intermediate_goals[rec.track_point + 1],
               FarField >> >>

\* RoadIntersectionLeftRightControlEnv.get_state_single_agent
get_state_single_agent_lr(rec) == <<rec, <<rec.position, FarField>>>>

get_state_single_agent(v, rec) ==
    IF v = "full" THEN get_state_single_agent_full(rec)
    ELSE get_state_single_agent_lr(rec)

\* base get_state(): one get_state_single_agent per id of get_agent_ids_list()
get_state_agents(v, ag) ==
    [a \in DOMAIN ag |-> get_state_single_agent(v, ag[a])[1]]
get_state_obs(v, ag) ==
    [a \in DOMAIN ag |-> get_state_single_agent(v, ag[a])[2]]

-----------------------------------------------------------------------------
(* RoadIntersectionSplineEnv.step: the loop over actions.items()           *)

\* fault: a test that holds again on every call after completion
TrackFullAtLeast(rec) == Len(rec.track) >= Len(rec.intermediate_goals) + 2

\* the completion test of the full variant: "1 extra for dummy start"
TrackFull(rec) == Len(rec.track) = Len(rec.intermediate_goals) + 2

\* the body of the loop for one (a_id, action):
\* [rec: the record after, completed: the test held, raised: the exception]
ExtendFull(rec, catalog, action) ==
    LET goals == rec.intermediate_goals
        cur   == rec.track_point - 1
    IN  IF PyIndexError(goals, cur) \/ PyIndexError(catalog, action)
        THEN [rec |-> rec, completed |-> FALSE, raised |-> "IndexError"]
        ELSE
        LET k     == PyPos(goals, cur)
            entry == PyIndex(catalog, action)
            \* pt += deviation writes through the view into the goal
            moved == <<goals[k][1] + Scale(entry[1]), goals[k][2] + Scale(entry[2])>>
            r1    == [rec EXCEPT !.intermediate_goals[k] = moved,
                                 !.previous_start_point = View(k),
                                 !.track = Append(@, View(k)),
                                 !.extends = @ + 1]
        IN  IF ~TrackFull(r1)
            THEN [rec |-> r1, completed |-> FALSE, raised |-> "none"]
            ELSE
            LET r2 == [r1 EXCEPT !.track = Append(@, Own(get_dummy_point(moved)))]
            IN  IF CatRaises(r2)
                THEN [rec |-> r2, completed |-> TRUE, raised |-> "TypeError"]
                ELSE [rec |-> [r2 EXCEPT !.registered = Append(@, Cat(r2))],
                      completed |-> TRUE, raised |-> "none"]

\* fault: the offset goes to the coordinate the road digit itself names
RECURSIVE AppendGoalsLRSameAxis(_, _, _, _)
AppendGoalsLRSameAxis(rec, catalog, action, i) ==
    IF i > Len(rec.intermediate_goals)
    THEN [rec |-> rec, raised |-> "none"]
    ELSE IF PyIndexError(catalog, action)
    THEN [rec |-> rec, raised |-> "IndexError"]
    ELSE
    LET coord == rec.road % 2
        g     == rec.intermediate_goals[i]
        dev   == Scale(PyIndex(catalog, action))
        pt    == IF coord = 0 THEN <<g[1] + dev, g[2]>> ELSE <<g[1], g[2] + dev>>
    IN  AppendGoalsLRSameAxis([rec EXCEPT !.track = Append(@, Own(pt))], catalog, action, i + 1)

\* the loop body of the left/right variant, for goals i..Len(goals) of one agent
RECURSIVE AppendGoalsLR(_, _, _, _)
AppendGoalsLR(rec, catalog, action, i) ==
    IF i > Len(rec.intermediate_goals)
    THEN [rec |-> rec, raised |-> "none"]
    ELSE IF PyIndexError(catalog, action)
    THEN [rec |-> rec, raised |-> "IndexError"]
    ELSE
    LET coord == (rec.road + 1) % 2
        g     == rec.intermediate_goals[i]
        dev   == Scale(PyIndex(catalog, action))
        \* pt = pt[:2].clone(): the goal itself is left alone
        pt    == IF coord = 0 THEN <<g[1] + dev, g[2]>> ELSE <<g[1], g[2] + dev>>
    IN  AppendGoalsLR([rec EXCEPT !.track = Append(@, Own(pt))], catalog, action, i + 1)

\* fault: the track is registered without its trailing dummy
ExtendLRNoDummy(rec, catalog, action) ==
    LET r1 == AppendGoalsLR(rec, catalog, action, 1)
    IN  IF r1.raised # "none"
        THEN [rec |-> r1.rec, completed |-> FALSE, raised |-> r1.raised]
        ELSE
        LET r2 == [r1.rec EXCEPT !.extends = @ + 1]
        IN  [rec |-> [r2 EXCEPT !.registered = Append(@, Cat(r2))],
             completed |-> TRUE, raised |-> "none"]

\* the loop body of the left/right variant for one (a_id, action)
ExtendLR(rec, catalog, action) ==
    LET r1 == AppendGoalsLR(rec, catalog, action, 1)
    IN  IF r1.raised # "none"
        THEN [rec |-> r1.rec, completed |-> FALSE, raised |-> r1.raised]
        ELSE
        LET last == Deref(r1.rec, r1.rec.track[Len(r1.rec.track)])
            r2   == [r1.rec EXCEPT !.track = Append(@, Own(get_dummy_point(last))),
                                   !.extends = @ + 1]
        IN  IF CatRaises(r2)
            THEN [rec |-> r2, completed |-> FALSE, raised |-> "TypeError"]
            ELSE [rec |-> [r2 EXCEPT !.registered = Append(@, Cat(r2))],
                  completed |-> TRUE, raised |-> "none"]

\* fault: the goal is appended to the track and made the start point before the
\* catalog is indexed, so a failing lookup leaves the agent half extended
ExtendAppendsBeforeLookup(v, rec, catalog, action) ==
    LET r == IF v = "full" THEN ExtendFull(rec, catalog, action)
             ELSE ExtendLR(rec, catalog, action)
        k == PyPos(rec.intermediate_goals, rec.track_point - 1)
    IN  IF v = "full" /\ r.raised = "IndexError"
        THEN [r EXCEPT !.rec = [rec EXCEPT !.previous_start_point = View(k),
                                           !.track = Append(@, View(k))]]
        ELSE r

Extend(v, rec, catalog, action) ==
    IF v = "full" THEN ExtendFull(rec, catalog, action)
    ELSE ExtendLR(rec, catalog, action)

\* the completed flag of the full variant after one more agent: set by any agent
\* whose test held, never cleared
CompletedFlag(before, now, ag) == before \/ now

\* for a_id, action in actions.items(), from entry i on; an exception ends it
RECURSIVE ExtendAll(_, _, _, _, _, _)
ExtendAll(v, ag, catalog, acts, i, completed) ==
    IF i > Len(acts)
    THEN [agents |-> ag, completed |-> completed, raised |-> "none"]
    ELSE
    LET a   == acts[i][1]
        r   == Extend(v, ag[a], catalog, acts[i][2])
        ag1 == [ag EXCEPT ![a] = r.rec]
    IN  IF r.raised # "none"
        THEN [agents |-> ag1, completed |-> completed, raised |-> r.raised]
        ELSE ExtendAll(v, ag1, catalog, acts, i + 1,
                       CompletedFlag(completed, r.completed, ag1))

-----------------------------------------------------------------------------
(* transform_state_action_single_agent *)

\* the per-agent dynamics model, a deterministic map (state, action) -> state on
\* (x, y, speed, orientation): the speed gains a quarter of the acceleration
\* unit per unit of action, the vehicle advances by its speed along its axis
dynamics(st, a) ==
    IF st[4] % 2 = 0
    THEN <<st[1] - st[3], st[2], st[3] + (a \div 25), st[4]>>
    ELSE <<st[1], st[2] - st[3], st[3] + (a \div 25), st[4]>>

\* for _ in range(timesteps): nominal_states.append(dynamics(nominal_states[-1], action))
RECURSIVE Rollout(_, _, _)
Rollout(states, a, n) ==
    IF n <= 0 THEN states
    ELSE Rollout(Append(states, dynamics(states[Len(states)], a)), a, n - 1)

TfInNone == [state |-> <<0, 0, 0, 0>>, action |-> 0, timesteps |-> 0]

TfOutNone ==
    [ called          |-> FALSE,
      raised          |-> "none",
      na              |-> << >>,      \* the returned goal state
      ns              |-> << >>,      \* the returned start state
      nominal_states  |-> << >>,      \* ex[0]
      nominal_actions |-> << >>,      \* ex[1]
      curr_action     |-> NoneVal ]   \* curr_actions[a_id]

\* the call, for the vehicle state (x, y, speed, orientation)
transform_state_action_single_agent(state, action, timesteps) ==
    IF PyIndexError(accln_control_actions_list, action)
    THEN [TfOutNone EXCEPT !.called = TRUE, !.raised = "IndexError"]
    ELSE
    LET a == PyIndex(accln_control_actions_list, action)
    IN  [ called          |-> TRUE,
          raised          |-> "none",
          na              |-> <<0, 0, 0, 0>>,
          ns              |-> <<0, 0, 0, 0>>,
          nominal_states  |-> Rollout(<<state>>, a, timesteps),
          nominal_actions |-> [i \in 1..(timesteps + 1) |-> a],
          curr_action     |-> <<a>> ]

-----------------------------------------------------------------------------
(* The calls *)

RetInit ==
    [ returned    |-> FALSE,       \* the call returned a tuple
      raised      |-> "none",      \* or the exception it raised
      obsIsNone   |-> TRUE,        \* first component is None
      obs         |-> << >>,       \* else the observation map
      rewardIsMap |-> FALSE,       \* second component is a dict keyed by agent id
      rewardFloat |-> 0,           \* else the float
      rewardMap   |-> << >>,
      done        |-> FALSE ]

RetRaise(e) == [RetInit EXCEPT !.raised = e]

\* return (self.get_state(), 0.0, False, {})
RetNoop(obs) ==
    [RetInit EXCEPT !.returned = TRUE, !.obsIsNone = FALSE, !.obs = obs]

\* fault: the reward of the completing return collapsed to one float
RetDoneScalar(rw) ==
    [RetInit EXCEPT !.returned = TRUE, !.done = TRUE,
                    !.rewardFloat = IF DOMAIN rw = {} THEN 0
                                    ELSE rw[CHOOSE a \in DOMAIN rw : TRUE]]

\* return (None, rewards, True, {})
RetDone(rw) ==
    [RetInit EXCEPT !.returned = TRUE, !.rewardIsMap = TRUE, !.rewardMap = rw,
                    !.done = TRUE]

Perms(S) ==
    {p \in [1..Cardinality(S) -> S] : \A i, j \in DOMAIN p : i # j => p[i] # p[j]}

\* the actions maps a caller passes: any agents, in any insertion order
ActsChoices(S, inputs) ==
    UNION { UNION { { [i \in DOMAIN p |-> <<p[i], x[i]>>] : x \in [DOMAIN p -> inputs] }
                    : p \in Perms(T) } : T \in SUBSET S }

Inputs(v, S) == IF v = "full" THEN ActionInputs(S) ELSE ActionInputsLR(S)

GoalCounts(S) == IF Cardinality(S) = 1 THEN 1..SoloGoals ELSE 1..MaxGoals

\* step calls made between two resets: as many as the longest track takes
CallBound(S) == IF Cardinality(S) = 1 THEN SoloGoals ELSE MaxGoals

\* the actions map as a dict, insertion order dropped
ActsMap(acts) ==
    [a \in {acts[i][1] : i \in DOMAIN acts} |->
        acts[CHOOSE i \in DOMAIN acts : acts[i][1] = a][2]]

\* what callLog keeps of a finished call
LogEntry(actsMap, r) ==
    [ acts        |-> actsMap,
      returned    |-> r.returned,
      raised      |-> r.raised,
      rewardIsMap |-> r.rewardIsMap,
      rewardFloat |-> r.rewardFloat,
      done        |-> r.done ]

Init ==
    /\ variant \in {"full", "lr"}
    /\ actions_list = configure_action_list(variant)
    /\ ids = {}
    /\ agents = << >>
    /\ pc = "idle"
    /\ curActs = << >>
    /\ rewards = << >>
    /\ tickLog = << >>
    /\ baseDone = FALSE
    /\ baseT = 0
    /\ baseMode = "finite"
    /\ ret = RetInit
    /\ callLog = << >>
    /\ dpIn = <<0, 0>>
    /\ dpOut = [called |-> FALSE, value |-> NoneVal]
    /\ tfIn = TfInNone
    /\ tfOut = TfOutNone

\* base reset(): add_vehicle for every agent of the scenario, then get_state()
Reset ==
    /\ pc = "idle"
    /\ ids = {} \/ callLog # << >>
    /\ \E S \in (SUBSET AgentPool) \ {{}} :
         \E G \in [S -> GoalCounts(S)] :
            /\ ids' = S
            /\ agents' = get_state_agents(variant,
                            [a \in S |-> add_vehicle(RoadOf(a), G[a])])
    /\ curActs' = << >>
    /\ rewards' = << >>
    /\ tickLog' = << >>
    /\ baseDone' = FALSE
    /\ baseT' = 0
    /\ ret' = RetInit
    /\ callLog' = << >>
    /\ UNCHANGED <<variant, actions_list, pc, baseMode, dpIn, dpOut, tfIn, tfOut>>

\* fault: the loop condition ignores what the base step reports
WhileAlways(done) == TRUE

\* while not done
WhileNotDone(done) == ~done

\* fault: the flag starts from what the base environment has already reported
DoneAtEntryFromBase(finished) == finished

\* done = False, before the loop
DoneAtEntry(finished) == FALSE

\* step(actions), up to its return or to the entry of the while loop
Step ==
    /\ pc = "idle"
    /\ Len(callLog) < CallBound(ids)
    /\ \E acts \in ActsChoices(ids, Inputs(variant, ids)) :
         LET r == ExtendAll(variant, agents, actions_list, acts, 1, FALSE)
         IN  /\ curActs' = ActsMap(acts)
             /\ tickLog' = << >>
             /\ IF r.raised # "none"
                THEN /\ agents' = r.agents
                     /\ ret' = RetRaise(r.raised)
                     /\ callLog' = Append(callLog, LogEntry(ActsMap(acts), RetRaise(r.raised)))
                     /\ UNCHANGED <<pc, rewards>>
                ELSE IF variant = "full" /\ ~r.completed
                THEN /\ agents' = get_state_agents(variant, r.agents)
                     /\ ret' = RetNoop(get_state_obs(variant, r.agents))
                     /\ callLog' = Append(callLog,
                            LogEntry(ActsMap(acts), RetNoop(get_state_obs(variant, r.agents))))
                     /\ UNCHANGED <<pc, rewards>>
                ELSE /\ agents' = r.agents
                     /\ rewards' = [a \in ids |-> 0]
                     /\ IF WhileNotDone(DoneAtEntry(baseDone))
                        THEN /\ pc' = "loop"
                             /\ ret' = RetInit
                             /\ UNCHANGED callLog
                        ELSE /\ ret' = RetDone([a \in ids |-> 0])
                             /\ callLog' = Append(callLog,
                                    LogEntry(ActsMap(acts), RetDone([a \in ids |-> 0])))
                             /\ UNCHANGED pc
    /\ UNCHANGED <<variant, actions_list, ids, baseDone, baseT, baseMode, dpIn, dpOut, tfIn, tfOut>>

\* fault: a tick's reward lands on another agent's total
AccumulateShifted(rw, rew) ==
    [a \in DOMAIN rw |-> rw[a] + rew[CHOOSE b \in DOMAIN rew :
                                        Cardinality(DOMAIN rew) = 1 \/ b # a]]

\* rewards[a_id] += r for a_id, r in rew.items()
Accumulate(rw, rew) == [a \in DOMAIN rw |-> rw[a] + rew[a]]

\* the base class's get_state_single_agent: the low-level observation of the
\* vehicle, which does not involve the cursor
base_get_state_single_agent(rec) == <<rec.position, rec.road>>

\* fault: the per-tick observation is the cursor-based one of this class
get_internal_state_cursor(ag) ==
    [a \in DOMAIN ag |-> get_state_single_agent_full(ag[a])[2]]

\* get_internal_state: super().get_state_single_agent(a_id) for every agent id
get_internal_state(ag) ==
    [a \in DOMAIN ag |-> base_get_state_single_agent(ag[a])]

\* for a_id, obs in states.items(): actions[a_id] = accln_control.act(obs, True);
\* each query is kept as (observation was None, deterministic flag)
accln_control_act(states) ==
    [a \in DOMAIN states |-> [obsIsNone |-> states[a] = NoneVal, deterministic |-> TRUE]]

\* one pass of the while loop: get_internal_state, accln_control.act, the base
\* step, the accumulation, done = dones["__all__"]; the return when the loop
\* condition fails
Tick ==
    /\ pc = "loop"
    /\ Len(tickLog) < MaxTicks
    /\ \E rew \in RewardMaps(ids), d \in BOOLEAN :
         /\ baseMode = "never" => ~d
         /\ baseMode = "finite" => ((baseDone \/ baseT + 1 >= Horizon) => d)
         /\ rewards' = Accumulate(rewards, rew)
         /\ tickLog' = Append(tickLog,
                [rew |-> rew, done |-> d,
                 actions |-> accln_control_act(get_internal_state(agents))])
         /\ baseDone' = d
         /\ baseT' = IF baseT < Horizon THEN baseT + 1 ELSE baseT
         /\ IF WhileNotDone(d)
            THEN UNCHANGED <<pc, ret, callLog>>
            ELSE /\ pc' = "idle"
                 /\ ret' = RetDone(Accumulate(rewards, rew))
                 /\ callLog' = Append(callLog,
                        LogEntry(curActs, RetDone(Accumulate(rewards, rew))))
    /\ UNCHANGED <<variant, actions_list, ids, agents, curActs, baseMode, dpIn, dpOut, tfIn, tfOut>>

Next == Reset \/ Step \/ Tick

Spec == Init /\ [][Next]_vars

\* the same calls against a base environment of either kind; a step call that
\* is inside the loop keeps running (the thread executing it is not suspended)
InitLive ==
    /\ variant \in {"full", "lr"}
    /\ actions_list = configure_action_list(variant)
    /\ ids = {}
    /\ agents = << >>
    /\ pc = "idle"
    /\ curActs = << >>
    /\ rewards = << >>
    /\ tickLog = << >>
    /\ baseDone = FALSE
    /\ baseT = 0
    /\ baseMode \in {"finite", "never"}
    /\ ret = RetInit
    /\ callLog = << >>
    /\ dpIn = <<0, 0>>
    /\ dpOut = [called |-> FALSE, value |-> NoneVal]
    /\ tfIn = TfInNone
    /\ tfOut = TfOutNone

SpecLive == InitLive /\ [][Next]_vars /\ WF_vars(Tick)

-----------------------------------------------------------------------------
(* get_dummy_point called directly, on any point of a grid around the      *)
(* drivable square                                                         *)

DummyGrid == {<<x, y>> : x \in -DummyRange..DummyRange, y \in -DummyRange..DummyRange}

InitDummy ==
    /\ variant = "full"
    /\ actions_list = configure_action_list(variant)
    /\ ids = {}
    /\ agents = << >>
    /\ pc = "idle"
    /\ curActs = << >>
    /\ rewards = << >>
    /\ tickLog = << >>
    /\ baseDone = FALSE
    /\ baseT = 0
    /\ baseMode = "finite"
    /\ ret = RetInit
    /\ callLog = << >>
    /\ dpIn \in DummyGrid
    /\ dpOut = [called |-> FALSE, value |-> NoneVal]
    /\ tfIn = TfInNone
    /\ tfOut = TfOutNone

CallDummy ==
    /\ ~dpOut.called
    /\ dpOut' = [called |-> TRUE, value |-> get_dummy_point(dpIn)]
    /\ UNCHANGED <<variant, actions_list, ids, agents, pc, curActs, rewards, tickLog,
                   baseDone, baseT, baseMode, ret, callLog, dpIn,
                   tfIn, tfOut>>

PickDummy ==
    /\ dpOut.called
    /\ \E p \in DummyGrid : dpIn' = p
    /\ dpOut' = [called |-> FALSE, value |-> NoneVal]
    /\ UNCHANGED <<variant, actions_list, ids, agents, pc, curActs, rewards, tickLog,
                   baseDone, baseT, baseMode, ret, callLog, tfIn, tfOut>>

NextDummy == CallDummy \/ PickDummy

SpecDummy == InitDummy /\ [][NextDummy]_vars

-----------------------------------------------------------------------------
(* transform_state_action_single_agent called directly, for a vehicle at   *)
(* the start of a road, with every value of the action space               *)

TransformInputs ==
    [ state     : {<<StartPosition(d)[1], StartPosition(d)[2], v, d>> : d \in {0, 1}, v \in {0, 1}},
      action    : 0..(get_action_space - 1),
      timesteps : 0..MaxTimesteps ]

InitTransform ==
    /\ variant \in {"full", "lr"}
    /\ actions_list = configure_action_list(variant)
    /\ ids = {}
    /\ agents = << >>
    /\ pc = "idle"
    /\ curActs = << >>
    /\ rewards = << >>
    /\ tickLog = << >>
    /\ baseDone = FALSE
    /\ baseT = 0
    /\ baseMode = "finite"
    /\ ret = RetInit
    /\ callLog = << >>
    /\ dpIn = <<0, 0>>
    /\ dpOut = [called |-> FALSE, value |-> NoneVal]
    /\ tfIn \in TransformInputs
    /\ tfOut = TfOutNone

CallTransform ==
    /\ ~tfOut.called
    /\ tfOut' = transform_state_action_single_agent(tfIn.state, tfIn.action, tfIn.timesteps)
    /\ UNCHANGED <<variant, actions_list, ids, agents, pc, curActs, rewards, tickLog,
                   baseDone, baseT, baseMode, ret, callLog, dpIn, dpOut, tfIn>>

PickTransform ==
    /\ tfOut.called
    /\ \E i \in TransformInputs : tfIn' = i
    /\ tfOut' = TfOutNone
    /\ UNCHANGED <<variant, actions_list, ids, agents, pc, curActs, rewards, tickLog,
                   baseDone, baseT, baseMode, ret, callLog, dpIn, dpOut>>

NextTransform == CallTransform \/ PickTransform

SpecTransform == InitTransform /\ [][NextTransform]_vars

-----------------------------------------------------------------------------
(* Properties *)

NumGoals(a) == Len(agents[a].intermediate_goals)
IsRegistered(a) == Len(agents[a].registered) > 0
OneIf(b) == IF b THEN 1 ELSE 0
\* the goals add_vehicle received, before any step call touched them
SuppliedGoals(a) == GoalPath(agents[a].road, NumGoals(a))
\* the deviations the catalog of the full variant can produce
Deviations == {<<Scale(actions_list[i][1]), Scale(actions_list[i][2])>> : i \in DOMAIN actions_list}
ValidIndex(i) == i >= 0 /\ i < Len(actions_list)
LastCall == callLog[Len(callLog)]
\* every action index supplied since the reset lies in [0, N)
ValidActs(m) == \A a \in DOMAIN m : ValidIndex(m[a])
EpisodeValid == ValidActs(curActs) /\ \A i \in DOMAIN callLog : ValidActs(callLog[i].acts)

\* C1 (as stated): in the full variant the track of an agent has N + 2 points
\* after N extensions with valid actions, whatever N is.
C1_TrackLenIsExtendsPlusTwo ==
    (variant = "full" /\ EpisodeValid) =>
        \A a \in ids : Len(agents[a].track) = agents[a].extends + 2

\* C1 (amended): in the full variant, after N extensions of an agent with G goals
\* the track has N + 2 entries while N < G and N + 3 from the call with N = G on
\* (that call appends the trailing dummy).  register_track is never called
\* before that call and never after it; it is called in that call, once, with
\* the G + 3 points of the track, unless get_dummy_point gave None for the
\* waypoint of that call (the call then fails with a TypeError and the track is
\* never registered).
C1_TrackLenAndSingleRegistration ==
    variant = "full" =>
        \A a \in ids :
            LET N == agents[a].extends
                G == NumGoals(a)
            IN  /\ Len(agents[a].track) = N + 2 + OneIf(N >= G)
                /\ Len(agents[a].registered)
                     = OneIf(N >= G /\ agents[a].track[G + 3].pt # NoneVal)
                /\ IsRegistered(a) => Len(agents[a].registered[1]) = G + 3

\* C1 witness: an agent was extended again after its track was registered.
C1_Witness ==
    /\ variant = "full"
    /\ \E a \in ids : agents[a].extends > NumGoals(a) /\ Len(agents[a].registered) = 1

\* C2 (as stated): in the full variant, while some agent's track is incomplete no
\* step call is in the inner loop, no base tick was executed by the last call and
\* what it returned is reward 0.0 with done = False.
C2_NoopWhileAnyTrackIncomplete ==
    (variant = "full" /\ \E a \in ids : ~IsRegistered(a)) =>
        /\ pc = "idle"
        /\ tickLog = << >>
        /\ ret.returned => (~ret.done /\ ~ret.rewardIsMap /\ ret.rewardFloat = 0)

\* C3 (as stated): a call returns done = True only after the base step reported
\* done["__all__"] in the last tick of that call, and then returns
\* (None, reward map over all agent ids, True, {}); and a call that returns with
\* every agent's track complete has run the loop to that point.  (Episodes with
\* valid action indices only.)
C3_DoneIffLoopRunToBaseDone ==
    EpisodeValid =>
    /\ ret.done =>
        /\ tickLog # << >>
        /\ tickLog[Len(tickLog)].done
        /\ \A i \in 1..(Len(tickLog) - 1) : ~tickLog[i].done
        /\ ret.obsIsNone
        /\ ret.rewardIsMap
        /\ DOMAIN ret.rewardMap = ids
    /\ (ret.returned /\ ids # {} /\ \A a \in ids : IsRegistered(a)) => ret.done

RECURSIVE SumRew(_, _, _)
SumRew(log, a, i) == IF i = 0 THEN 0 ELSE SumRew(log, a, i - 1) + log[i].rew[a]

\* C4: inside the loop and at the return of a completing call, every agent's
\* total is the sum over the ticks of this call of the rewards the base step
\* returned for that agent, counted from 0.
C4_RewardIsSumOfTickRewards ==
    /\ pc = "loop" => \A a \in ids : rewards[a] = SumRew(tickLog, a, Len(tickLog))
    /\ ret.done => \A a \in ids : ret.rewardMap[a] = SumRew(tickLog, a, Len(tickLog))

\* C4 witness: a completing call of a two-agent episode returned after two ticks
\* with different totals, in an episode that had an earlier call.
C4_Witness ==
    /\ ret.done
    /\ Len(tickLog) = 2
    /\ Len(callLog) >= 2
    /\ ids = {"a1", "a2"}
    /\ ret.rewardMap["a1"] = 2
    /\ ret.rewardMap["a2"] = 4

\* C5 (as stated): in the left/right variant register_track is called at most once
\* per agent between two resets, whatever step calls are made.
C5_RegisteredAtMostOnce ==
    variant = "lr" => \A a \in ids : Len(agents[a].registered) <= 1

\* C5 (amended): in the left/right variant every step call that does not raise
\* registers, for each agent of its actions map, exactly one track; the first one
\* is complete after that single call: dummy of the start, the start, one
\* waypoint per intermediate goal, the dummy of the last waypoint.  So there is
\* exactly one registration per agent and episode when the episode has one step
\* call naming the agent, and one more for every further such call.
C5_OneRegistrationPerCall ==
    variant = "lr" =>
        \A a \in ids :
            LET G  == NumGoals(a)
                rg == agents[a].registered
            IN  /\ Len(rg) = agents[a].extends
                /\ \A k \in DOMAIN rg : Len(rg[k]) = 2 + k * (G + 1)
                /\ Len(rg) >= 1 =>
                    /\ rg[1][1] = get_dummy_point(agents[a].position)
                    /\ rg[1][2] = agents[a].position
                    /\ rg[1][G + 3] = get_dummy_point(rg[1][G + 2])

\* C5 witness: a second step call registered a second track for an agent.
C5_Witness ==
    /\ variant = "lr"
    /\ \E a \in ids : Len(agents[a].registered) = 2

\* C6 (as stated): the full catalog has 25 entries, the left/right one 3.
C6_CatalogSizes25And3 ==
    /\ variant = "full" => Len(actions_list) = 25
    /\ variant = "lr" => Len(actions_list) = 3

\* C6 (amended): the full catalog is the 7 x 7 grid of the offsets -0.75, -0.5,
\* ..., 0.75 on both axes and has 49 entries, the left/right catalog has 3;
\* get_action_space is Discrete(N) with N the catalog size, and the indices
\* 0 .. N-1 are the ones of [0, N] that index the catalog without an IndexError.
C6_CatalogSizes49And3 ==
    /\ variant = "full" =>
        /\ Len(actions_list) = 49
        /\ {actions_list[i] : i \in DOMAIN actions_list}
             = {-75, -50, -25, 0, 25, 50, 75} \X {-75, -50, -25, 0, 25, 50, 75}
    /\ variant = "lr" => actions_list = <<-50, 0, 50>>
    /\ get_action_space = Len(actions_list)
    /\ \A i \in 0..get_action_space :
         PyIndexError(actions_list, i) <=> i = get_action_space

\* C6 witness: a step call of the full variant has used the catalog.
C6_Witness ==
    /\ variant = "full"
    /\ actions_list[1] = <<-75, -75>>
    /\ actions_list[49] = <<75, 75>>
    /\ \E a \in ids : agents[a].extends > 0

\* C7 (as stated): each of the four boundary cases gives its far-field point
\* whatever the other coordinate is.
C7_DummyPointAnyOtherCoordinate ==
    dpOut.called =>
        LET x == dpIn[1]
            y == dpIn[2]
        IN  /\ x > HalfWidth => dpOut.value = <<FarField, y>>
            /\ x < -HalfWidth => dpOut.value = <<-FarField, y>>
            /\ y > HalfWidth => dpOut.value = <<x, FarField>>
            /\ y < -HalfWidth => dpOut.value = <<x, -FarField>>

\* C7 (amended): the two x cases hold for every y; the two y cases hold when x
\* lies within [-width/2, width/2] (a point outside on both axes is resolved
\* along x).
C7_DummyPointXBeforeY ==
    dpOut.called =>
        LET x == dpIn[1]
            y == dpIn[2]
            xin == x <= HalfWidth /\ x >= -HalfWidth
        IN  /\ x > HalfWidth => dpOut.value = <<FarField, y>>
            /\ x < -HalfWidth => dpOut.value = <<-FarField, y>>
            /\ (xin /\ y > HalfWidth) => dpOut.value = <<x, FarField>>
            /\ (xin /\ y < -HalfWidth) => dpOut.value = <<x, -FarField>>

\* C7 witness: a point outside the square on both axes was resolved along x.
C7_Witness ==
    /\ dpOut.called
    /\ dpIn[1] > HalfWidth
    /\ dpIn[2] < -HalfWidth
    /\ dpOut.value = <<FarField, dpIn[2]>>

\* C8 (as stated): a step call given an index outside [0, N) for some agent
\* raises IndexError and returns nothing.
C8_OutOfRangeIndexRaises ==
    (callLog # << >> /\ \E a \in DOMAIN LastCall.acts : ~ValidIndex(LastCall.acts[a])) =>
        (LastCall.raised = "IndexError" /\ ~LastCall.returned)

\* C9 (as stated): in the full variant the registered track of an agent with G
\* goals is: dummy of the start, the start, for k = 1..G the k-th goal moved by a
\* deviation of the catalog, the dummy of the last waypoint.  (Episodes with
\* valid action indices only.)
C9_RegisteredTrackFollowsGoals ==
    (variant = "full" /\ EpisodeValid) =>
        \A a \in ids :
            IsRegistered(a) =>
                LET G  == NumGoals(a)
                    tr == agents[a].registered[1]
                IN  /\ Len(tr) = G + 3
                    /\ tr[1] = get_dummy_point(agents[a].position)
                    /\ tr[2] = agents[a].position
                    /\ \A k \in 1..G :
                         \E d \in Deviations :
                            tr[k + 2] = <<SuppliedGoals(a)[k][1] + d[1],
                                          SuppliedGoals(a)[k][2] + d[2]>>
                    /\ tr[G + 3] = get_dummy_point(tr[G + 2])

\* the single-agent scenario: one agent, three goals, three step calls, each with
\* a valid action for the agent
SoloScenario ==
    /\ variant = "full"
    /\ Cardinality(ids) = 1
    /\ \A a \in ids : NumGoals(a) = 3
    /\ Len(callLog) = 3
    /\ \A i \in 1..3 : DOMAIN callLog[i].acts = ids
                       /\ \A a \in ids : ValidIndex(callLog[i].acts[a])

\* C10 (as stated): in the scenario the third call returns a single float as
\* its reward, with done = True.
C10_ThirdCallReturnsFloat ==
    SoloScenario => (callLog[3].done /\ ~callLog[3].rewardIsMap)

\* C10 (amended): in the scenario the first two calls return the float 0.0 with
\* done = False and the third returns done = True with a reward map that has one
\* entry, the agent's.
C10_ThirdCallReturnsMap ==
    SoloScenario =>
        /\ \A i \in 1..2 : /\ callLog[i].returned
                           /\ ~callLog[i].rewardIsMap
                           /\ callLog[i].rewardFloat = 0
                           /\ ~callLog[i].done
        /\ callLog[3].returned /\ callLog[3].done /\ callLog[3].rewardIsMap
        /\ ret.rewardIsMap /\ DOMAIN ret.rewardMap = ids

\* C10 witness: the scenario has been played.
C10_Witness == SoloScenario /\ ret.done

\* a step of the model that is a reset of an episode with agents
IsResetStep == callLog' = << >> /\ callLog # << >>

\* C11: in every state each agent's track_point lies in 0 .. len(intermediate_goals);
\* it never decreases from one state to the next unless the step is a reset; and
\* get_state_single_agent called in that state returns None, leaving the cursor
\* alone, exactly when track_point = len(intermediate_goals), and otherwise
\* advances the cursor by one.
C11_CursorBoundedMonotoneNoneAtEnd ==
    /\ [](\A a \in ids :
            LET tp == agents[a].track_point
                r  == get_state_single_agent_full(agents[a])
            IN  /\ 0 <= tp /\ tp <= NumGoals(a)
                /\ variant = "full" =>
                     /\ r[2] = NoneVal <=> tp = NumGoals(a)
                     /\ r[2] = NoneVal => r[1] = agents[a]
                     /\ r[2] # NoneVal => r[1].track_point = tp + 1)
    /\ [][~IsResetStep =>
            \A a \in ids : agents'[a].track_point >= agents[a].track_point]_vars

\* C11 witness: a no-op step observed an agent whose cursor was exhausted (its
\* observation is None) next to one whose cursor advanced.
C11_Witness ==
    /\ variant = "full"
    /\ ret.returned /\ ~ret.obsIsNone
    /\ \E a, b \in ids :
         /\ agents[a].track_point = NumGoals(a) /\ ret.obs[a] = NoneVal
         /\ ret.obs[b] # NoneVal /\ agents[b].track_point = 2

\* s is t or t with entries appended
IsPrefix(s, t) == Len(s) <= Len(t) /\ \A i \in DOMAIN s : s[i] = t[i]

\* the entries i..j of the track are appended waypoints, none of them a dummy:
\* views of a goal in the full variant, offset copies of the goals otherwise
WaypointsOnly(a, i, j) ==
    \A n \in i..j :
        IF variant = "full" THEN agents[a].track[n].ref # 0
        ELSE agents[a].track[n].ref = 0
             /\ agents[a].track[n].pt # get_dummy_point(Deref(agents[a], agents[a].track[n - 1]))

\* C12 (as stated): the track begins with exactly one dummy point; once it is
\* registered it ends with exactly one dummy point and nothing is appended
\* after that dummy until the next reset; in the full variant the number of
\* points strictly between the two dummy points is the number of goals.
\* (Episodes with valid action indices only.)
C12_TrackShapeFinalOnceRegistered ==
    EpisodeValid =>
    \A a \in ids :
        LET tr == agents[a].track
            n  == Len(tr)
        IN  /\ tr[1] = Own(get_dummy_point(agents[a].position))
            /\ tr[2] = Own(agents[a].position)
            /\ IsRegistered(a) =>
                 /\ tr[n] = Own(get_dummy_point(Deref(agents[a], tr[n - 1])))
                 /\ WaypointsOnly(a, 3, n - 1)
                 /\ variant = "full" => n - 2 = NumGoals(a)

\* C12 (amended): the track list begins with the dummy of the start followed by
\* the start itself, and is append-only between resets.  Every tensor handed to
\* register_track begins with that dummy and the start and ends with the dummy
\* of its last waypoint; in the full variant it has the start and G waypoints
\* (G + 1 points) between the two dummies.  The list is not frozen by the
\* registration: what a later step call appends comes after the trailing
\* dummy (one waypoint per call in the full variant; G waypoints and one more
\* dummy per call in the left/right variant).
C12_TrackShapeAtRegistration ==
    /\ [](\A a \in ids :
            LET tr == agents[a].track
                rg == agents[a].registered
                G  == NumGoals(a)
            IN  /\ tr[1] = Own(get_dummy_point(agents[a].position))
                /\ tr[2] = Own(agents[a].position)
                /\ \A k \in DOMAIN rg :
                     /\ rg[k][1] = get_dummy_point(agents[a].position)
                     /\ rg[k][2] = agents[a].position
                     /\ rg[k][Len(rg[k])] = get_dummy_point(rg[k][Len(rg[k]) - 1])
                     /\ Len(rg[k]) <= Len(tr)
                /\ (variant = "full" /\ IsRegistered(a)) =>
                     /\ Len(rg) = 1
                     /\ Len(rg[1]) = (G + 1) + 2
                     /\ tr[G + 3] = Own(rg[1][G + 3])
                     /\ WaypointsOnly(a, 3, G + 2)
                     /\ WaypointsOnly(a, G + 4, Len(tr))
                /\ (variant = "lr" /\ IsRegistered(a)) =>
                     /\ Len(tr) = 2 + Len(rg) * (G + 1)
                     /\ \A k \in DOMAIN rg :
                          /\ tr[2 + k * (G + 1)].pt = rg[k][Len(rg[k])]
                          /\ WaypointsOnly(a, 3 + (k - 1) * (G + 1), 1 + k * (G + 1)))
    /\ [][~IsResetStep =>
            \A a \in ids : IsPrefix(agents[a].track, agents'[a].track)]_vars

\* C12 witness: a waypoint was appended after the trailing dummy of a
\* registered track.
C12_Witness ==
    \E a \in ids :
        /\ IsRegistered(a)
        /\ Len(agents[a].track) > Len(agents[a].registered[1])

\* C13 (as stated): no call changes an entry of an agent's intermediate_goals:
\* in every state the goals are the ones add_vehicle received.  (Episodes with
\* valid action indices only.)
C13_GoalsAreReadOnly ==
    EpisodeValid =>
        \A a \in ids : agents[a].intermediate_goals = SuppliedGoals(a)

\* C14 (as stated): in the full variant the k-th waypoint appended to an agent's
\* track (k = 1 .. len(intermediate_goals)) is taken from the k-th goal and is
\* that goal plus a deviation of the catalog, and previous_start_point is the
\* waypoint appended last; whatever step calls were made, with any agents
\* omitted from their actions maps.  (Episodes with valid action indices only.)
C14_KthWaypointFromKthGoal ==
    (variant = "full" /\ EpisodeValid) =>
        \A a \in ids :
            LET N == agents[a].extends
                G == NumGoals(a)
            IN  /\ \A k \in 1..G :
                     k <= N =>
                        /\ agents[a].track[k + 2] = View(k)
                        /\ \E d \in Deviations :
                             Deref(agents[a], agents[a].track[k + 2])
                               = <<SuppliedGoals(a)[k][1] + d[1],
                                   SuppliedGoals(a)[k][2] + d[2]>>
                /\ (N >= 1 /\ N <= G) =>
                     agents[a].previous_start_point = agents[a].track[N + 2]

Exhausted(a) == agents[a].track_point >= NumGoals(a)

\* C15 (as stated): at each tick of the loop an agent whose cursor is exhausted
\* has observation None and is not queried; every other agent is queried once,
\* deterministically, and the queried agents are the ones whose actions go to
\* the base step.  (Episodes with valid action indices only.)
C15_ExhaustedAgentsNotQueried ==
    EpisodeValid =>
    \A i \in DOMAIN tickLog :
        \A a \in ids :
            IF Exhausted(a)
            THEN a \notin DOMAIN tickLog[i].actions
            ELSE /\ a \in DOMAIN tickLog[i].actions
                 /\ tickLog[i].actions[a].deterministic

\* C15 (amended): at each tick of the loop every agent id is observed through
\* the base class's get_state_single_agent, which never reads or advances the
\* cursor, and is queried exactly once with act(obs, True) on an observation
\* that is not None, whether its cursor is exhausted or not; the action map
\* given to the base step has one entry per agent id.
C15_EveryAgentQueriedEachTick ==
    /\ [](\A i \in DOMAIN tickLog :
            /\ DOMAIN tickLog[i].actions = ids
            /\ DOMAIN tickLog[i].rew = ids
            /\ \A a \in ids : /\ ~tickLog[i].actions[a].obsIsNone
                               /\ tickLog[i].actions[a].deterministic)
    /\ [][pc = "loop" => agents' = agents]_vars

\* C15 witness: a tick of a two-agent episode queried an agent whose cursor is
\* exhausted and one whose cursor is not.
C15_Witness ==
    /\ tickLog # << >>
    /\ \E a, b \in ids :
         /\ Exhausted(a) /\ ~Exhausted(b)
         /\ {a, b} \subseteq DOMAIN tickLog[1].actions

\* C16: the loop is left only by a tick at which the base step reported
\* done["__all__"], and the call then returns done = True.  Against a base that
\* reports it within the horizon every call that is in the loop eventually
\* returns with done = True, after at most Horizon ticks; against a base that
\* never reports it a call that is in the loop stays there for ever.
C16_LoopEndsExactlyOnBaseDone ==
    /\ [][(pc = "loop" /\ pc' # "loop") =>
            /\ tickLog'[Len(tickLog')].done
            /\ ret'.returned /\ ret'.done]_vars
    /\ (pc = "loop" /\ baseMode = "finite") ~> (pc = "idle" /\ ret.done)
    /\ [](baseMode = "finite" => Len(tickLog) <= Horizon)
    /\ []((pc = "loop" /\ baseMode = "never") => [](pc = "loop" /\ ~ret.returned))

\* C16 witness: a call has run every tick the model follows against a base
\* that never reports done, and is still in the loop.
C16_Witness ==
    /\ baseMode = "never"
    /\ pc = "loop"
    /\ Len(tickLog) = MaxTicks
    /\ \A i \in DOMAIN tickLog : ~tickLog[i].done

\* C17 (as stated): a transformer call with an index of the environment's
\* catalog (a value of Discrete(N)) and T timesteps returns T + 1 nominal states
\* and T + 1 nominal actions: state 1 is the vehicle's (x, y, speed,
\* orientation), each next state is dynamics of the one before under the one
\* action a the index selects, every nominal action is a, the goal and start
\* states returned are zeros and a is what curr_actions holds for the agent.
C17_TransformRollsOutEveryCatalogIndex ==
    (tfOut.called /\ tfIn.action >= 0 /\ tfIn.action < get_action_space) =>
        /\ tfOut.raised = "none"
        /\ Len(tfOut.nominal_states) = tfIn.timesteps + 1
        /\ Len(tfOut.nominal_actions) = tfIn.timesteps + 1
        /\ tfOut.nominal_states[1] = tfIn.state
        /\ \E a \in {accln_control_actions_list[i] : i \in DOMAIN accln_control_actions_list} :
             /\ \A i \in 1..tfIn.timesteps :
                  tfOut.nominal_states[i + 1] = dynamics(tfOut.nominal_states[i], a)
             /\ \A i \in DOMAIN tfOut.nominal_actions : tfOut.nominal_actions[i] = a
             /\ tfOut.curr_action = <<a>>
        /\ tfOut.na = <<0, 0, 0, 0>>
        /\ tfOut.ns = <<0, 0, 0, 0>>

\* the step call in progress, or the last one made, got past its loop over the
\* actions map and agent a was in that map
ProcessedInLastCall(a) ==
    /\ ret.raised = "none"
    /\ pc = "loop" \/ ret.done
    /\ a \in DOMAIN curActs

\* C18: in the left/right variant, for an agent on road d that a step call
\* processed with action i, the track registered in that call ends with one
\* waypoint per goal, in goal order, each the goal with actions_list[i] * width/2
\* added to coordinate (d + 1) mod 2 and the other coordinate unchanged,
\* followed by the dummy point of the last waypoint; it extends what was
\* registered before, the goals themselves are unchanged, and the registration
\* took place in that call.
C18_LeftRightOffsetsOneAxis ==
    variant = "lr" =>
        \A a \in ids :
            ProcessedInLastCall(a) =>
                LET G    == NumGoals(a)
                    rg   == agents[a].registered
                    K    == Len(rg)
                    tr   == rg[K]
                    off  == 2 + (K - 1) * (G + 1)
                    dev  == Scale(PyIndex(actions_list, curActs[a]))
                    c    == (agents[a].road + 1) % 2
                    goal == agents[a].intermediate_goals
                IN  /\ K >= 1
                    /\ K = agents[a].extends
                    /\ goal = SuppliedGoals(a)
                    /\ Len(tr) = off + G + 1
                    /\ \A j \in 1..G :
                         /\ tr[off + j][c + 1] = goal[j][c + 1] + dev
                         /\ tr[off + j][2 - c] = goal[j][2 - c]
                    /\ tr[off + G + 1] = get_dummy_point(tr[off + G])
                    /\ tr[off + G + 1] # NoneVal
                    /\ IF K = 1
                       THEN tr[1] = get_dummy_point(agents[a].position)
                            /\ tr[2] = agents[a].position
                       ELSE IsPrefix(rg[K - 1], tr)

\* C18 witness: one call of a two-agent episode registered the tracks of an
\* agent on road 0 and of an agent on road 1 with two goals, with a non-zero
\* offset.
C18_Witness ==
    /\ variant = "lr"
    /\ pc = "loop"
    /\ ids = {"a1", "a2"}
    /\ \A a \in ids : /\ ProcessedInLastCall(a)
                       /\ Len(agents[a].registered) = 1
                       /\ Scale(PyIndex(actions_list, curActs[a])) # 0
    /\ agents["a1"].road = 0
    /\ agents["a2"].road = 1
    /\ NumGoals("a2") = 2

\* the index of the first tick of this call at which the base step reported
\* done["__all__"] (0: none so far)
FirstDoneTick ==
    IF \E i \in DOMAIN tickLog : tickLog[i].done
    THEN CHOOSE i \in DOMAIN tickLog :
            tickLog[i].done /\ \A j \in 1..(i - 1) : ~tickLog[j].done
    ELSE 0

\* C19: a call that has returned done = True has executed at least one tick,
\* with one deterministic policy query per agent id before the base step of
\* that tick, also when the base environment had reported done before the call;
\* the number of ticks it executed is the index of the first tick at which the
\* base step reported done["__all__"], and a call still in the loop has seen no
\* such tick.
C19_AtLeastOneTickUpToFirstDone ==
    /\ ret.done =>
        /\ Len(tickLog) >= 1
        /\ Len(tickLog) = FirstDoneTick
        /\ \A i \in DOMAIN tickLog : DOMAIN tickLog[i].actions = ids
        /\ callLog # << >> /\ LastCall.done
    /\ pc = "loop" => FirstDoneTick = 0

\* C19 witness: a call entered the loop after the base environment had
\* reported done in an earlier call of the episode, and returned after one tick
\* in which both agents were queried.
C19_Witness ==
    /\ ret.done
    /\ Len(callLog) >= 2
    /\ callLog[Len(callLog) - 1].done
    /\ Len(tickLog) = 1
    /\ DOMAIN tickLog[1].actions = {"a1", "a2"}

\* the step taken is a step call that ended with the exception e
CallRaised(e) ==
    /\ Len(callLog') = Len(callLog) + 1
    /\ callLog'[Len(callLog')].raised = e

\* C20: when a step call of the full variant ends with an IndexError, there is
\* an agent in its actions map whose action does not index the catalog, and
\* every such agent has its track, previous_start_point, track_point, goals and
\* registrations exactly as before the call; the call executed no tick and is
\* not in the loop, and the base environment is as it was.
C20_FailedLookupLeavesAgentUntouched ==
    [][(variant = "full" /\ CallRaised("IndexError")) =>
        /\ \E a \in DOMAIN curActs' : PyIndexError(actions_list, curActs'[a])
        /\ \A a \in DOMAIN curActs' :
             PyIndexError(actions_list, curActs'[a]) =>
                /\ agents'[a].track = agents[a].track
                /\ agents'[a].previous_start_point = agents[a].previous_start_point
                /\ agents'[a].track_point = agents[a].track_point
                /\ agents'[a].intermediate_goals = agents[a].intermediate_goals
                /\ agents'[a].registered = agents[a].registered
        /\ tickLog' = << >>
        /\ pc' = "idle"
        /\ ~ret'.returned
        /\ baseT' = baseT /\ baseDone' = baseDone]_vars

\* C20 witness: the first call of a two-agent episode failed on the action of
\* one agent after it had extended the other.
C20_Witness ==
    /\ variant = "full"
    /\ Len(callLog) = 1
    /\ ret.raised = "IndexError"
    /\ \E a, b \in DOMAIN curActs :
         /\ PyIndexError(actions_list, curActs[a])
         /\ agents[a].extends = 0 /\ Len(agents[a].track) = 2
         /\ agents[b].extends = 1 /\ Len(agents[b].track) >= 3

====
